---- MODULE Spec2Model ----
(***************************************************************************)
(* Model of the stock-analyst rule engine                                  *)
(* (src/system/agents/finance_agent/tools_config/ticker_tools.py), of      *)
(* ResultStorage (src/system/utility/result_storage.py), of the            *)
(* analyze-stock endpoint (src/Interface/routes.py, src/main.py) and of    *)
(* PineconeStorage (src/system/agents/finance_agent/tools/storage_tool.py).*)
(*                                                                         *)
(* Python values are tagged records:                                       *)
(*   None            [t |-> "none"]                                        *)
(*   int / float     [t |-> "num", n |-> numerator, d |-> denominator]     *)
(*                   (an exact rational in lowest terms, d > 0)            *)
(*   float('nan')    [t |-> "nan"]                                         *)
(*   str             [t |-> "str", s |-> text]                             *)
(* A call either returns or raises; a raised exception is the record       *)
(* [kind |-> "raise", exc |-> <exception class>].                          *)
(***************************************************************************)
EXTENDS Integers, Naturals, Sequences, FiniteSets, TLC

VARIABLES
    metrics,          \* decide_action: the metrics argument
    sentiment_score,  \* decide_action: the sentiment_score argument
    thresholds,       \* decide_action: the thresholds argument of the latest call
    decision,         \* decide_action: outcome of the latest call
    baseline,         \* decide_action: outcome of the call with thresholds=None
    pc,               \* position of the decide_action caller
    data,             \* extract_financial_metrics: the data argument
    extracted,        \* extract_financial_metrics: outcome of the call
    xpc,              \* position of the extract_financial_metrics caller
    headlines,        \* score_news_sentiment: the headlines argument
    vader,            \* score_news_sentiment: whether the analyzer can be imported
    compounds,        \* score_news_sentiment: what the analyzer returned per headline
    scored,           \* score_news_sentiment: outcome of the call
    spc,              \* position of the score_news_sentiment caller
    memory,           \* ResultStorage.memory
    saves,            \* contents passed to ResultStorage.save since the last clear
    result,           \* ResultStorage: outcome of the latest call
    rpc,              \* ResultStorage: the latest call
    runner,           \* app.state.runner
    events,           \* the events runner.run_async yields for the request
    response,         \* analyze_stock: outcome of the request
    apc,              \* position of the application (startup, request)
    enabled,          \* PineconeStorage._enabled
    index,            \* the records held by the Pinecone index
    in_memory,        \* PineconeStorage._in_memory
    fetched,          \* PineconeStorage: outcome of the latest fetch
    stored,           \* the record each id was last upserted with, None after delete
    ppc               \* PineconeStorage: the latest call

decideVars == <<metrics, sentiment_score, thresholds, decision, baseline, pc>>
extractVars == <<data, extracted, xpc>>
sentimentVars == <<headlines, vader, compounds, scored, spc>>
storageVars == <<memory, saves, result, rpc>>
routeVars == <<runner, events, response, apc>>
pineconeVars == <<enabled, index, in_memory, fetched, stored, ppc>>

vars == <<decideVars, extractVars, sentimentVars, storageVars, routeVars,
          pineconeVars>>

-----------------------------------------------------------------------------
(* Python values *)

None == [t |-> "none"]

NaN == [t |-> "nan"]

Str(s) == [t |-> "str", s |-> s]

AbsInt(i) == IF i < 0 THEN -i ELSE i

RECURSIVE GCD(_, _)
GCD(a, b) == IF b = 0 THEN a ELSE GCD(b, a % b)

\* the number n/d (d > 0) in lowest terms
Num(n, d) ==
    LET g == GCD(AbsInt(n), d)
    IN  [t |-> "num", n |-> n \div g, d |-> d \div g]

\* a dict with the items of the function f
Dict(f) == [t |-> "dict", d |-> f]

IsNone(x) == x.t = "none"

IsNumeric(x) == x.t \in {"num", "nan"}

\* bool(x): None, 0, 0.0, "" and {} are falsy; nan and every other value is truthy
Truthy(x) ==
    CASE x.t = "none" -> FALSE
      [] x.t = "num"  -> x.n # 0
      [] x.t = "nan"  -> TRUE
      [] x.t = "str"  -> x.s # ""
      [] x.t = "dict" -> DOMAIN x.d # {}

\* a or b
PyOr(a, b) == IF Truthy(a) THEN a ELSE b

\* a > b and a < b raise TypeError unless both operands are numbers;
\* every ordered comparison with nan is False
CanCompare(a, b) == IsNumeric(a) /\ IsNumeric(b)

Gt(a, b) == a.t = "num" /\ b.t = "num" /\ a.n * b.d > b.n * a.d

Lt(a, b) == a.t = "num" /\ b.t = "num" /\ a.n * b.d < b.n * a.d

\* the strings float() accepts, with the number each one denotes
ParsedStrings == { <<"12.5", Num(25, 2)>>, <<"50", Num(50, 1)>> }

\* float(x): the number, or the exception it raises
Float(x) ==
    CASE x.t \in {"num", "nan"} -> [exc |-> "none", val |-> x]
      [] x.t = "none" -> [exc |-> "TypeError", val |-> None]
      [] x.t = "str" ->
            IF \E p \in ParsedStrings : p[1] = x.s
            THEN [exc |-> "none",
                  val |-> (CHOOSE p \in ParsedStrings : p[1] = x.s)[2]]
            ELSE [exc |-> "ValueError", val |-> None]

\* f"{x:.<digits>f}" of a number: the count of 10^-digits units nearest to x
\* (ties to even), or "nan"
RECURSIVE Pow10(_)
Pow10(k) == IF k = 0 THEN 1 ELSE 10 * Pow10(k - 1)

RoundHalfEven(n, d) ==
    LET a == AbsInt(n)
        q == a \div d
        r == a % d
        up == (2 * r > d) \/ (2 * r = d /\ q % 2 = 1)
        m == IF up THEN q + 1 ELSE q
    IN  IF n < 0 THEN -m ELSE m

Format(x, digits) ==
    IF x.t = "nan" THEN [t |-> "fmt", text |-> "nan"]
    ELSE [t |-> "fmt", digits |-> digits,
          units |-> RoundHalfEven(x.n * Pow10(digits), x.d)]

NoArg == [t |-> "fmt", text |-> ""]

-----------------------------------------------------------------------------
(* decide_action *)

ThresholdKeys ==
    {"revenue_growth_good_pct", "revenue_growth_bad_pct",
     "debt_to_equity_good", "debt_to_equity_bad",
     "sentiment_good", "sentiment_bad", "pe_low", "pe_high"}

\* the dict built when thresholds is None
DefaultThresholds ==
    [k \in ThresholdKeys |->
        CASE k = "revenue_growth_good_pct" -> Num(5, 1)
          [] k = "revenue_growth_bad_pct"  -> Num(-5, 1)
          [] k = "debt_to_equity_good"     -> Num(1, 1)
          [] k = "debt_to_equity_bad"      -> Num(2, 1)
          [] k = "sentiment_good"          -> Num(15, 100)
          [] k = "sentiment_bad"           -> Num(-15, 100)
          [] k = "pe_low"                  -> Num(15, 1)
          [] k = "pe_high"                 -> Num(40, 1)]

\* one evaluated signal: what it adds to pos and neg and the reason it appends
Step(dpos, dneg, msg, arg) ==
    [exc |-> "none", pos |-> dpos, neg |-> dneg,
     reason |-> [msg |-> msg, arg |-> arg]]

\* a signal whose evaluation raises
Raise(exc) ==
    [exc |-> exc, pos |-> 0, neg |-> 0, reason |-> [msg |-> "", arg |-> NoArg]]

\* "x > th[hi] -> positive; x < th[lo] -> negative; else neutral", the shape of
\* the revenue-growth and sentiment signals.  th[k] raises KeyError when k is
\* missing; the comparison raises TypeError when x is not a number.
HighIsGood(x, th, hi, lo, posMsg, negMsg, midMsg, digits) ==
    IF hi \notin DOMAIN th THEN Raise("KeyError")
    ELSE IF ~CanCompare(x, th[hi]) THEN Raise("TypeError")
    ELSE IF Gt(x, th[hi]) THEN Step(1, 0, posMsg, Format(x, digits))
    ELSE IF lo \notin DOMAIN th THEN Raise("KeyError")
    ELSE IF ~CanCompare(x, th[lo]) THEN Raise("TypeError")
    ELSE IF Lt(x, th[lo]) THEN Step(0, 1, negMsg, Format(x, digits))
    ELSE Step(0, 0, midMsg, Format(x, digits))

\* "x < th[lo] -> positive; x > th[hi] -> negative; else neutral", the shape of
\* the debt/equity and P/E signals
LowIsGood(x, th, lo, hi, posMsg, negMsg, midMsg, digits) ==
    IF lo \notin DOMAIN th THEN Raise("KeyError")
    ELSE IF ~CanCompare(x, th[lo]) THEN Raise("TypeError")
    ELSE IF Lt(x, th[lo]) THEN Step(1, 0, posMsg, Format(x, digits))
    ELSE IF hi \notin DOMAIN th THEN Raise("KeyError")
    ELSE IF ~CanCompare(x, th[hi]) THEN Raise("TypeError")
    ELSE IF Gt(x, th[hi]) THEN Step(0, 1, negMsg, Format(x, digits))
    ELSE Step(0, 0, midMsg, Format(x, digits))

NetIncomeSignal(m) ==
    LET ni == m.net_income
    IN  IF ~IsNone(ni)
        THEN IF ~CanCompare(ni, Num(0, 1)) THEN Raise("TypeError")
             ELSE IF Gt(ni, Num(0, 1))
                  THEN Step(1, 0, "positive net income", NoArg)
                  ELSE Step(0, 1, "negative net income or not reported", NoArg)
        ELSE Step(0, 0, "net income unavailable", NoArg)

RevenueGrowthSignal(m, th) ==
    LET rg == m.revenue_growth_pct
    IN  IF ~IsNone(rg)
        THEN HighIsGood(rg, th,
                        "revenue_growth_good_pct", "revenue_growth_bad_pct",
                        "revenue growth {:.1f}%", "revenue decline {:.1f}%",
                        "revenue growth muted {:.1f}%", 1)
        ELSE Step(0, 0, "revenue growth unavailable", NoArg)

DebtToEquitySignal(m, th) ==
    LET d2e == m.debt_to_equity
    IN  IF ~IsNone(d2e)
        THEN LowIsGood(d2e, th, "debt_to_equity_good", "debt_to_equity_bad",
                       "low leverage d/e {:.2f}", "high leverage d/e {:.2f}",
                       "moderate leverage d/e {:.2f}", 2)
        ELSE Step(0, 0, "debt/equity unavailable", NoArg)

SentimentSignal(s, th) ==
    HighIsGood(s, th, "sentiment_good", "sentiment_bad",
               "positive news sentiment {:.2f}",
               "negative news sentiment {:.2f}",
               "neutral news sentiment {:.2f}", 2)

\* pe = metrics.get("trailing_pe") or metrics.get("forward_pe")
ChosenPE(m) == PyOr(m.trailing_pe, m.forward_pe)

\* the try block around float(pe) and the comparisons catches every Exception,
\* the KeyError of a missing pe_low / pe_high included
PESignal(m, th) ==
    LET pe == ChosenPE(m)
    IN  IF ~IsNone(pe)
        THEN LET f == Float(pe)
                 inner == LowIsGood(f.val, th, "pe_low", "pe_high",
                                    "low PE {:.1f}", "high PE {:.1f}",
                                    "PE in range {:.1f}", 1)
             IN  IF f.exc # "none" \/ inner.exc # "none"
                 THEN Step(0, 0, "PE parsing error", NoArg)
                 ELSE inner
        ELSE Step(0, 0, "PE unavailable", NoArg)

\* Verdict with the BUY cutoff compared strictly
VerdictStrict(score) ==
    IF score > 2 THEN "BUY"
    ELSE IF score <= -2 THEN "SELL"
    ELSE "HOLD"

Verdict(score) ==
    IF score >= 2 THEN "BUY"
    ELSE IF score <= -2 THEN "SELL"
    ELSE "HOLD"

\* Signals with the sentiment signal evaluated before debt/equity
SignalsSwapped(m, s, th) ==
    << NetIncomeSignal(m), RevenueGrowthSignal(m, th), SentimentSignal(s, th),
       DebtToEquitySignal(m, th), PESignal(m, th) >>

\* Signals with the P/E block chained to the sentiment block by elif, so that
\* P/E is looked at only when the sentiment is neither positive nor negative
SignalsChained(m, s, th) ==
    LET sent == SentimentSignal(s, th)
    IN  << NetIncomeSignal(m), RevenueGrowthSignal(m, th),
           DebtToEquitySignal(m, th), sent,
           IF sent.pos + sent.neg > 0
           THEN Step(0, 0, "PE unavailable", NoArg)
           ELSE PESignal(m, th) >>

\* the five signals in the order the function evaluates them
Signals(m, s, th) ==
    << NetIncomeSignal(m), RevenueGrowthSignal(m, th), DebtToEquitySignal(m, th),
       SentimentSignal(s, th), PESignal(m, th) >>

RECURSIVE SumPos(_, _)
SumPos(steps, i) == IF i = 0 THEN 0 ELSE steps[i].pos + SumPos(steps, i - 1)

RECURSIVE SumNeg(_, _)
SumNeg(steps, i) == IF i = 0 THEN 0 ELSE steps[i].neg + SumNeg(steps, i - 1)

\* decide_action(metrics, sentiment_score, script_text, thresholds): the dict it
\* returns, or the exception of the first signal that raises
decide_action(m, s, script_text, thr) ==
    LET th == IF thr.t = "none" THEN DefaultThresholds ELSE thr.d
        steps == Signals(m, s, th)
        raised == {i \in 1..Len(steps) : steps[i].exc # "none"}
        pos == SumPos(steps, Len(steps))
        neg == SumNeg(steps, Len(steps))
        score == pos - neg
    IN  IF raised # {}
        THEN [kind |-> "raise",
              exc |-> steps[CHOOSE i \in raised : \A j \in raised : i <= j].exc]
        ELSE [kind |-> "return",
              verdict |-> Verdict(score),
              score |-> score,
              pos_signals |-> pos,
              neg_signals |-> neg,
              reasons |-> [i \in 1..Len(steps) |-> steps[i].reason],
              script |-> script_text]


-----------------------------------------------------------------------------
(* Callers of decide_action: one call with thresholds=None, then calls with  *)
(* an explicit thresholds dict on the same metrics and sentiment.            *)

\* distance, in hundredths, between a cutoff and the inputs probed around it
Eps == 1

Below(x) == Num(x.n * 100 - Eps * x.d, x.d * 100)

Above(x) == Num(x.n * 100 + Eps * x.d, x.d * 100)

\* inputs around the two cutoffs of a signal: beyond each cutoff and on it
Around(lo, hi) ==
    {Below(DefaultThresholds[lo]), DefaultThresholds[lo],
     DefaultThresholds[hi], Above(DefaultThresholds[hi])}

NetIncomes == {None, Num(0, 1), Num(Eps, 1), Str("N/A")}

RevenueGrowths ==
    {None, Str("N/A")}
        \cup Around("revenue_growth_bad_pct", "revenue_growth_good_pct")

DebtToEquities ==
    {None, Str("N/A")} \cup Around("debt_to_equity_good", "debt_to_equity_bad")

Sentiments == Around("sentiment_bad", "sentiment_good")

TrailingPEs ==
    {None, Num(0, 1), Str("N/A"), Below(DefaultThresholds["pe_low"]),
     DefaultThresholds["pe_low"], Above(DefaultThresholds["pe_high"])}

ForwardPEs == {None, Str("12.5"), Above(DefaultThresholds["pe_high"])}

MetricsInputs ==
    [net_income : NetIncomes, revenue_growth_pct : RevenueGrowths,
     debt_to_equity : DebtToEquities, trailing_pe : TrailingPEs,
     forward_pe : ForwardPEs]

ScriptText == "<script>"

NotCalled == [kind |-> "none"]

\* a cutoff moved by Eps hundredths towards the inside of its signal's neutral
\* band's other side, so that an input on the default cutoff changes class
Moved(k) ==
    IF k \in {"revenue_growth_good_pct", "sentiment_good", "debt_to_equity_bad",
              "pe_high"}
    THEN Below(DefaultThresholds[k])
    ELSE Above(DefaultThresholds[k])

\* the default dict with key k set to v
Override(k, v) == [DefaultThresholds EXCEPT ![k] = v]

\* the default dict without the keys of K
Without(K) == [k \in ThresholdKeys \ K |-> DefaultThresholds[k]]

MissingSets == {{k} : k \in ThresholdKeys} \cup {ThresholdKeys}

InitDecideIdle ==
    /\ metrics = None
    /\ sentiment_score = None
    /\ thresholds = None
    /\ decision = NotCalled
    /\ baseline = NotCalled
    /\ pc = "idle"

InitDecide ==
    /\ metrics \in MetricsInputs
    /\ sentiment_score \in Sentiments
    /\ thresholds = None
    /\ decision = NotCalled
    /\ baseline = NotCalled
    /\ pc = "start"

\* decide_action(metrics, sentiment, script), as analyse_ticker calls it
DecideDefault ==
    /\ pc = "start"
    /\ thresholds' = None
    /\ decision' = decide_action(metrics, sentiment_score, ScriptText, None)
    /\ baseline' = decision'
    /\ pc' = "decided"
    /\ UNCHANGED <<metrics, sentiment_score>>

\* decide_action with the defaults and one key overridden
DecideOverride ==
    /\ pc = "decided"
    /\ \E k \in ThresholdKeys :
          /\ thresholds' = Dict(Override(k, Moved(k)))
          /\ decision' = decide_action(metrics, sentiment_score, ScriptText,
                                       thresholds')
    /\ pc' = "redecided"
    /\ UNCHANGED <<metrics, sentiment_score, baseline>>

\* decide_action with a thresholds dict that lacks keys
DecideMissing ==
    /\ pc = "decided"
    /\ \E K \in MissingSets :
          /\ thresholds' = Dict(Without(K))
          /\ decision' = decide_action(metrics, sentiment_score, ScriptText,
                                       thresholds')
    /\ pc' = "redecided"
    /\ UNCHANGED <<metrics, sentiment_score, baseline>>

InitExtractIdle ==
    /\ data = None
    /\ extracted = NotCalled
    /\ xpc = "idle"

InitSentimentIdle ==
    /\ headlines = <<>>
    /\ vader = "idle"
    /\ compounds = <<>>
    /\ scored = NotCalled
    /\ spc = "idle"

InitStorageIdle ==
    /\ memory = <<>>
    /\ saves = <<>>
    /\ result = NotCalled
    /\ rpc = [op |-> "idle"]

InitRouteIdle ==
    /\ runner = None
    /\ events = <<>>
    /\ response = NotCalled
    /\ apc = "idle"

InitPineconeIdle ==
    /\ enabled = FALSE
    /\ index = None
    /\ in_memory = None
    /\ fetched = NotCalled
    /\ stored = None
    /\ ppc = [op |-> "idle"]

NextDecide ==
    \/ DecideDefault /\ UNCHANGED
           <<extractVars, sentimentVars, storageVars, routeVars, pineconeVars>>
    \/ DecideOverride /\ UNCHANGED
           <<extractVars, sentimentVars, storageVars, routeVars, pineconeVars>>
    \/ DecideMissing /\ UNCHANGED
           <<extractVars, sentimentVars, storageVars, routeVars, pineconeVars>>

InitDecideCalls ==
    /\ InitDecide
    /\ InitExtractIdle
    /\ InitSentimentIdle
    /\ InitStorageIdle
    /\ InitRouteIdle
    /\ InitPineconeIdle

SpecDecide == InitDecideCalls /\ [][NextDecide]_vars


-----------------------------------------------------------------------------
(* Claims about decide_action, checked under SpecDecide *)

Called == pc \in {"decided", "redecided"}

Returned == Called /\ decision.kind = "return"

\* the thresholds the latest call worked with
Effective == IF thresholds.t = "none" THEN DefaultThresholds ELSE thresholds.d

NullOrNumeric(x) == x.t \in {"none", "num", "nan"}

NullOrNumericMetrics ==
    /\ NullOrNumeric(metrics.net_income)
    /\ NullOrNumeric(metrics.revenue_growth_pct)
    /\ NullOrNumeric(metrics.debt_to_equity)
    /\ NullOrNumeric(metrics.trailing_pe)
    /\ NullOrNumeric(metrics.forward_pe)

\* the reason texts of each signal, by what the signal did to the counters
PosReasons ==
    << {"positive net income"}, {"revenue growth {:.1f}%"},
       {"low leverage d/e {:.2f}"}, {"positive news sentiment {:.2f}"},
       {"low PE {:.1f}"} >>

NegReasons ==
    << {"negative net income or not reported"}, {"revenue decline {:.1f}%"},
       {"high leverage d/e {:.2f}"}, {"negative news sentiment {:.2f}"},
       {"high PE {:.1f}"} >>

NeutralReasons ==
    << {"net income unavailable"},
       {"revenue growth muted {:.1f}%", "revenue growth unavailable"},
       {"moderate leverage d/e {:.2f}", "debt/equity unavailable"},
       {"neutral news sentiment {:.2f}"},
       {"PE in range {:.1f}", "PE parsing error", "PE unavailable"} >>

\* C1: whenever decide_action returns, score = pos_signals - neg_signals and the
\* verdict is BUY exactly when score >= 2, SELL exactly when score <= -2, and
\* HOLD otherwise.
C1_ScoreAndVerdict ==
    Returned =>
        /\ decision.score = decision.pos_signals - decision.neg_signals
        /\ (decision.verdict = "BUY") <=> (decision.score >= 2)
        /\ (decision.verdict = "SELL") <=> (decision.score <= -2)
        /\ (decision.verdict = "HOLD") <=>
               (decision.score > -2 /\ decision.score < 2)
        /\ decision.verdict \in {"BUY", "SELL", "HOLD"}

\* C1 witness: a call returned BUY on the boundary score 2.
C1_Witness ==
    Returned /\ decision.score = 2 /\ decision.verdict = "BUY"
        /\ decision.neg_signals > 0

\* C2: with null-or-numeric metrics and a complete thresholds dict the call
\* returns exactly five reasons, the i-th being one of the i-th signal's reasons
\* (net income, revenue growth, debt/equity, sentiment, P/E), and pos_signals /
\* neg_signals count the signals whose reason is a positive / negative one, so
\* each signal adds one to at most one of the two counters.
C2_FiveSignalsInOrder ==
    (Called /\ NullOrNumericMetrics /\ DOMAIN Effective = ThresholdKeys) =>
        /\ decision.kind = "return"
        /\ Len(decision.reasons) = 5
        /\ \A i \in 1..5 :
              decision.reasons[i].msg
                  \in PosReasons[i] \cup NegReasons[i] \cup NeutralReasons[i]
        /\ decision.pos_signals =
              Cardinality({i \in 1..5 : decision.reasons[i].msg \in PosReasons[i]})
        /\ decision.neg_signals =
              Cardinality({i \in 1..5 : decision.reasons[i].msg \in NegReasons[i]})

\* C2 witness: a returned call in which some signals counted positive, some
\* negative and some neither.
C2_Witness ==
    /\ Returned /\ NullOrNumericMetrics
    /\ decision.pos_signals = 2 /\ decision.neg_signals = 2

\* the class the P/E signal gives a number x under thresholds th
PEClass(x, th) ==
    IF Lt(x, th["pe_low"]) THEN "low PE {:.1f}"
    ELSE IF Gt(x, th["pe_high"]) THEN "high PE {:.1f}"
    ELSE "PE in range {:.1f}"

\* C3: the P/E signal is classified on trailing_pe whenever trailing_pe is
\* non-null, whatever its value; forward_pe is used only when trailing_pe is
\* absent; "PE unavailable" only when both are absent.
C3_TrailingWheneverPresent ==
    (pc = "decided" /\ decision.kind = "return" /\ NullOrNumericMetrics) =>
        LET pe == IF ~IsNone(metrics.trailing_pe) THEN metrics.trailing_pe
                  ELSE metrics.forward_pe
        IN  IF IsNone(pe)
            THEN decision.reasons[5].msg = "PE unavailable"
            ELSE decision.reasons[5].msg = PEClass(pe, DefaultThresholds)

AllPositiveInputs ==
    /\ Gt(metrics.net_income, Num(0, 1))
    /\ Gt(metrics.revenue_growth_pct, Num(5, 1))
    /\ Lt(metrics.debt_to_equity, Num(1, 1))
    /\ Gt(sentiment_score, Num(15, 100))
    /\ Lt(metrics.trailing_pe, Num(15, 1))

AllNegativeInputs ==
    /\ metrics.net_income.t = "num" /\ ~Gt(metrics.net_income, Num(0, 1))
    /\ Lt(metrics.revenue_growth_pct, Num(-5, 1))
    /\ Gt(metrics.debt_to_equity, Num(2, 1))
    /\ Lt(sentiment_score, Num(-15, 100))
    /\ Gt(IF ~IsNone(metrics.trailing_pe) THEN metrics.trailing_pe
          ELSE metrics.forward_pe, Num(40, 1))

\* C4: under the default thresholds, five positive signals give BUY with score
\* 5, pos_signals 5, neg_signals 0, and five negative signals give SELL with
\* score -5.
C4_AllPositiveAllNegative ==
    pc = "decided" =>
        /\ AllPositiveInputs =>
              /\ decision.kind = "return"
              /\ decision.verdict = "BUY" /\ decision.score = 5
              /\ decision.pos_signals = 5 /\ decision.neg_signals = 0
        /\ AllNegativeInputs =>
              /\ decision.kind = "return"
              /\ decision.verdict = "SELL" /\ decision.score = -5

\* C5: with the default thresholds decide_action returns a verdict, whatever
\* the types of the metric values.
C5_NeverRaises ==
    pc = "decided" => decision.kind = "return"

\* C6: with a thresholds dict that lacks keys, decide_action returns what it
\* returns when every missing key has its default value.
C6_MissingKeysDefaulted ==
    (pc = "redecided" /\ DOMAIN Effective # ThresholdKeys
        /\ baseline.kind = "return") =>
            decision = baseline

\* the signal (position in the evaluation order) a threshold key belongs to
SignalOf(k) ==
    CASE k \in {"revenue_growth_good_pct", "revenue_growth_bad_pct"} -> 2
      [] k \in {"debt_to_equity_good", "debt_to_equity_bad"} -> 3
      [] k \in {"sentiment_good", "sentiment_bad"} -> 4
      [] k \in {"pe_low", "pe_high"} -> 5

\* the keys whose value differs from the default in the latest call
Changed == {k \in ThresholdKeys : Effective[k] # DefaultThresholds[k]}

\* C7: a call that differs from the default call only in the value of one
\* threshold key returns like it, with the same reasons for the four signals
\* the key does not belong to and counters that differ by at most one.
C7_OverrideIsLocal ==
    (pc = "redecided" /\ DOMAIN Effective = ThresholdKeys
        /\ Cardinality(Changed) = 1) =>
            LET k == CHOOSE c \in Changed : TRUE
            IN  /\ decision.kind = baseline.kind
                /\ decision.kind = "return" =>
                      /\ \A i \in 1..5 \ {SignalOf(k)} :
                            decision.reasons[i] = baseline.reasons[i]
                      /\ decision.pos_signals - baseline.pos_signals \in {-1, 0, 1}
                      /\ decision.neg_signals - baseline.neg_signals \in {-1, 0, 1}

\* C7 witness: overriding sentiment_good alone changed the sentiment reason.
C7_Witness ==
    /\ pc = "redecided" /\ DOMAIN Effective = ThresholdKeys
    /\ Changed = {"sentiment_good"}
    /\ decision.kind = "return"
    /\ decision.reasons[4] # baseline.reasons[4]


-----------------------------------------------------------------------------
(* extract_financial_metrics *)

(* A pandas table is [t |-> "frame", ncols |-> number of period columns,       *)
(* rows |-> the function from row label to the row's values, most recent       *)
(* first].  A price history is [t |-> "hist", columns |-> the column names,    *)
(* closes |-> the Close column, oldest first].                                 *)

\* a - b, a / b, abs(a), a * k on numbers; nan propagates
Sub(a, b) ==
    IF a.t = "nan" \/ b.t = "nan" THEN NaN
    ELSE Num(a.n * b.d - b.n * a.d, a.d * b.d)

AbsVal(a) == IF a.t = "nan" THEN NaN ELSE Num(AbsInt(a.n), a.d)

\* b is not zero
Div(a, b) ==
    IF a.t = "nan" \/ b.t = "nan" THEN NaN
    ELSE IF b.n < 0 THEN Num(-(a.n * b.d), a.d * (-b.n))
    ELSE Num(a.n * b.d, a.d * b.n)

Times(a, k) == IF a.t = "nan" THEN NaN ELSE Num(a.n * k, a.d)

\* data.get(key)
DataGet(d, key) == IF key \in DOMAIN d THEN d[key] ELSE None

\* hasattr(x, "empty") and not x.empty
NonEmptyFrame(x) == x.t = "frame" /\ x.ncols > 0 /\ DOMAIN x.rows # {}

NonEmptyHistory(x) == x.t = "hist" /\ Len(x.closes) > 0

\* _get_row / _get_val: the first column of the first candidate label in the
\* index, None when no candidate is
RECURSIVE GetRowFrom(_, _, _)
GetRowFrom(df, candidates, i) ==
    IF i > Len(candidates) THEN None
    ELSE IF candidates[i] \in DOMAIN df.rows THEN df.rows[candidates[i]][1]
    ELSE GetRowFrom(df, candidates, i + 1)

GetRow(df, candidates) == GetRowFrom(df, candidates, 1)

rev_candidates == <<"Total Revenue", "Revenue", "Revenues">>

net_candidates ==
    <<"Net Income", "Net Income Applicable To Common Shares", "NetIncomeLoss">>

debt_candidates == <<"Long Term Debt", "Total Debt", "Long-term Debt">>

equity_candidates ==
    <<"Total Stockholder Equity", "Total Stockholders' Equity", "Total Equity",
      "Stockholders Equity">>

\* x in (None, 0) written as `x is None`
InNoneOnly(x) == x.t = "none"

\* x in (None, 0)
InNoneOrZero(x) == x.t = "none" \/ (x.t = "num" /\ x.n = 0)

\* info = data.get("info", {}) or {}
InfoOf(d) ==
    LET i == IF "info" \in DOMAIN d THEN d["info"] ELSE Dict(<<>>)
    IN  IF Truthy(i) THEN i ELSE Dict(<<>>)

\* info.get(key) on a dict
InfoGet(info, key) == IF key \in DOMAIN info.d THEN info.d[key] ELSE None

\* float(x) if x is not None else None
FloatOrNone(x) == IF IsNone(x) THEN [exc |-> "none", val |-> None] ELSE Float(x)

\* the try block of lines 116-124: every exception leaves current_price None
CurrentPrice(d) ==
    LET hist == DataGet(d, "history")
        info == InfoOf(d)
    IN  IF NonEmptyHistory(hist)
        THEN IF "Close" \notin hist.columns THEN None
             ELSE LET f == Float(hist.closes[Len(hist.closes)])
                  IN  IF f.exc # "none" THEN None ELSE f.val
        ELSE IF info.t # "dict" THEN None
             ELSE IF Truthy(InfoGet(info, "currentPrice"))
                  THEN LET f == Float(InfoGet(info, "currentPrice"))
                       IN  IF f.exc # "none" THEN None ELSE f.val
                  ELSE None

\* the second column of the first revenue candidate in the index
RECURSIVE RevOldFrom(_, _)
RevOldFrom(fin, i) ==
    IF i > Len(rev_candidates) THEN None
    ELSE IF rev_candidates[i] \in DOMAIN fin.rows
         THEN fin.rows[rev_candidates[i]][2]
         ELSE RevOldFrom(fin, i + 1)

\* the inner try block of lines 149-162: TypeError of the arithmetic on a str
\* leaves revenue_growth_pct None
RevenueGrowth(fin) ==
    IF fin.ncols >= 2
    THEN LET rev_new == GetRow(fin, rev_candidates)
             rev_old == RevOldFrom(fin, 1)
         IN  IF ~IsNone(rev_new) /\ ~InNoneOrZero(rev_old)
             THEN IF IsNumeric(rev_new) /\ IsNumeric(rev_old)
                  THEN Times(Div(Sub(rev_new, rev_old), AbsVal(rev_old)), 100)
                  ELSE None
             ELSE None
    ELSE None

\* the try block of lines 131-164: an exception of float(rev) or float(net)
\* skips the rest of the block
Financials(d) ==
    LET fin == DataGet(d, "financials")
        nothing == [revenue |-> None, net_income |-> None,
                    revenue_growth_pct |-> None]
    IN  IF NonEmptyFrame(fin)
        THEN LET rev == FloatOrNone(GetRow(fin, rev_candidates))
                 net == FloatOrNone(GetRow(fin, net_candidates))
             IN  IF rev.exc # "none" THEN nothing
                 ELSE IF net.exc # "none"
                      THEN [nothing EXCEPT !.revenue = rev.val]
                      ELSE [revenue |-> rev.val, net_income |-> net.val,
                            revenue_growth_pct |-> RevenueGrowth(fin)]
        ELSE nothing

\* the try block of lines 167-188
BalanceSheet(d) ==
    LET bal == DataGet(d, "balance_sheet")
        nothing == [total_debt |-> None, total_equity |-> None,
                    debt_to_equity |-> None]
    IN  IF NonEmptyFrame(bal)
        THEN LET debt == FloatOrNone(GetRow(bal, debt_candidates))
                 equity == FloatOrNone(GetRow(bal, equity_candidates))
             IN  IF debt.exc # "none" THEN nothing
                 ELSE IF equity.exc # "none"
                      THEN [nothing EXCEPT !.total_debt = debt.val]
                      ELSE [total_debt |-> debt.val, total_equity |-> equity.val,
                            debt_to_equity |->
                                IF ~IsNone(debt.val) /\ ~InNoneOrZero(equity.val)
                                THEN Div(debt.val, equity.val)
                                ELSE None]
        ELSE nothing

\* extract_financial_metrics(data): the metrics dict, or the AttributeError of
\* info.get on an info that is no dict (lines 126-128 are outside any try)
extract_financial_metrics(d) ==
    LET info == InfoOf(d)
        fin == Financials(d)
        bal == BalanceSheet(d)
    IN  IF info.t # "dict" THEN [kind |-> "raise", exc |-> "AttributeError"]
        ELSE [kind |-> "return",
              metrics |->
                [current_price |-> CurrentPrice(d),
                 trailing_pe |-> InfoGet(info, "trailingPE"),
                 forward_pe |-> InfoGet(info, "forwardPE"),
                 market_cap |-> InfoGet(info, "marketCap"),
                 revenue |-> fin.revenue,
                 net_income |-> fin.net_income,
                 revenue_growth_pct |-> fin.revenue_growth_pct,
                 total_debt |-> bal.total_debt,
                 total_equity |-> bal.total_equity,
                 debt_to_equity |-> bal.debt_to_equity]]


-----------------------------------------------------------------------------
(* Caller of extract_financial_metrics: analyse_ticker passes it the dict of   *)
(* fetch_company_data, whose fields come from the market-data client.          *)

\* the largest number of period columns of a statement table
MaxPeriods == 2

\* marks a key the dict does not have
Absent == [t |-> "absent"]

\* a row a table may have: its values, or the mark of a table without it
PresentRow(vals) == [present |-> TRUE, vals |-> vals]

AbsentRow == [present |-> FALSE, vals |-> <<>>]

\* a row with `new` in the most recent period, `old` in the previous one and
\* 1 in the older ones
RowOf(new, old, n) ==
    [i \in 1..n |-> IF i = 1 THEN new ELSE IF i = 2 THEN old ELSE Num(1, 1)]

Frame(n, rows) == [t |-> "frame", ncols |-> n, rows |-> rows]

\* the table with the rows of `picked` (label -> row) that are present
FrameOf(n, picked) ==
    Frame(n, [l \in {k \in DOMAIN picked : picked[k].present} |-> picked[l].vals])

RevNews == {None, Num(150, 1), Str("N/A")}

RevOlds == {None, Num(0, 1), Num(100, 1), Num(-100, 1), NaN, Str("N/A")}

NetIncomeCells == {None, Num(5, 1), Str("N/A")}

TotalRevenueRows(n) ==
    {AbsentRow} \cup
        IF n >= 2
        THEN {PresentRow(RowOf(a, b, n)) : a \in RevNews, b \in RevOlds}
        ELSE {PresentRow(RowOf(a, None, n)) : a \in RevNews}

RevenueRows(n) == {AbsentRow, PresentRow(RowOf(Num(70, 1), Num(35, 1), n))}

NetIncomeRows(n) ==
    {AbsentRow} \cup {PresentRow(RowOf(a, Num(1, 1), n)) : a \in NetIncomeCells}

\* the tables with n period columns
FinancialsFrames(n) ==
    { FrameOf(n, [r \in {"Total Revenue", "Revenue", "Net Income"} |->
                    CASE r = "Total Revenue" -> tr
                      [] r = "Revenue" -> rv
                      [] r = "Net Income" -> ni]) :
        tr \in TotalRevenueRows(n), rv \in RevenueRows(n),
        ni \in NetIncomeRows(n) }

FinancialsInputs ==
    {None, Str("n/a")} \cup UNION { FinancialsFrames(n) : n \in 1..MaxPeriods }

DebtCells == {Absent, None, Num(100, 1), Str("N/A")}

EquityCells == {Absent, Num(0, 1), Num(50, 1), Str("N/A")}

CellRow(c) == IF c = Absent THEN AbsentRow ELSE PresentRow(RowOf(c, None, 1))

BalanceSheetInputs ==
    {None, Frame(0, [r \in {"Total Debt"} |-> <<>>])}
        \cup { FrameOf(1, [r \in {"Total Debt", "Stockholders Equity"} |->
                            IF r = "Total Debt" THEN CellRow(dc)
                            ELSE CellRow(ec)]) :
                 dc \in DebtCells, ec \in EquityCells }

InfoInputs ==
    {Absent, Dict(<<>>), Str("n/a"),
     Dict([currentPrice |-> Num(20, 1), trailingPE |-> Num(12, 1),
           forwardPE |-> Num(14, 1), marketCap |-> Num(1000, 1)]),
     Dict([currentPrice |-> Num(0, 1), trailingPE |-> Num(12, 1)]),
     Dict([currentPrice |-> Str("N/A")])}

History(columns, closes) == [t |-> "hist", columns |-> columns, closes |-> closes]

HistoryInputs ==
    {None, History({"Open", "Close"}, <<>>),
     History({"Open", "Close"}, <<Num(10, 1), Num(11, 1)>>),
     History({"Open"}, <<Num(10, 1), Num(11, 1)>>)}

\* the dict with the fields that are not Absent
DataOf(info, fin, bal, hist) ==
    LET picked == [k \in {"info", "financials", "balance_sheet", "history"} |->
                      CASE k = "info" -> info
                        [] k = "financials" -> fin
                        [] k = "balance_sheet" -> bal
                        [] k = "history" -> hist]
    IN  [k \in {x \in DOMAIN picked : picked[x] # Absent} |-> picked[k]]

DataInputs ==
    { DataOf(i, f, b, h) : i \in InfoInputs, f \in FinancialsInputs,
                           b \in BalanceSheetInputs, h \in HistoryInputs }

InitExtract ==
    /\ data \in DataInputs
    /\ extracted = NotCalled
    /\ xpc = "start"

\* metrics = extract_financial_metrics(data)
Extract ==
    /\ xpc = "start"
    /\ extracted' = extract_financial_metrics(data)
    /\ xpc' = "extracted"
    /\ UNCHANGED data

NextExtract == Extract /\ UNCHANGED
    <<decideVars, sentimentVars, storageVars, routeVars, pineconeVars>>

InitExtractCalls ==
    /\ InitExtract
    /\ InitDecideIdle
    /\ InitSentimentIdle
    /\ InitStorageIdle
    /\ InitRouteIdle
    /\ InitPineconeIdle

SpecExtract == InitExtractCalls /\ [][NextExtract]_vars


-----------------------------------------------------------------------------
(* Claims about extract_financial_metrics, checked under SpecExtract *)

Extracted == xpc = "extracted" /\ extracted.kind = "return"

MetricKeys ==
    {"current_price", "trailing_pe", "forward_pe", "market_cap", "revenue",
     "net_income", "revenue_growth_pct", "total_debt", "total_equity",
     "debt_to_equity"}

\* the label of the first candidate that is a row of df, "" when none is
RECURSIVE FirstAliasFrom(_, _, _)
FirstAliasFrom(df, candidates, i) ==
    IF i > Len(candidates) THEN ""
    ELSE IF candidates[i] \in DOMAIN df.rows THEN candidates[i]
    ELSE FirstAliasFrom(df, candidates, i + 1)

FirstAlias(df, candidates) == FirstAliasFrom(df, candidates, 1)

\* the cells the extraction reads, as <<table key, row label, column>>
ReadCells(d) ==
    LET fin == DataGet(d, "financials")
        bal == DataGet(d, "balance_sheet")
        finCells ==
            IF NonEmptyFrame(fin)
            THEN {<<"financials", FirstAlias(fin, rev_candidates), c>> :
                      c \in 1..(IF fin.ncols >= 2 THEN 2 ELSE 1)}
                 \cup {<<"financials", FirstAlias(fin, net_candidates), 1>>}
            ELSE {}
        balCells ==
            IF NonEmptyFrame(bal)
            THEN {<<"balance_sheet", FirstAlias(bal, debt_candidates), 1>>,
                  <<"balance_sheet", FirstAlias(bal, equity_candidates), 1>>}
            ELSE {}
    IN  {c \in finCells \cup balCells : c[2] # ""}

CellValue(d, c) == d[c[1]].rows[c[2]][c[3]]

\* a cell float() cannot convert
Malformed(d, c) ==
    LET v == CellValue(d, c) IN v.t = "str" /\ Float(v).exc # "none"

\* the data with the cell c holding no value
Nulled(d, c) ==
    [d EXCEPT ![c[1]] =
        [@ EXCEPT !.rows = [@ EXCEPT ![c[2]] = [@ EXCEPT ![c[3]] = None]]]]

\* the metrics computed from the cell c
DerivedFrom(c) ==
    IF c[1] = "financials"
    THEN IF c[2] \in {rev_candidates[i] : i \in 1..Len(rev_candidates)}
         THEN IF c[3] = 1 THEN {"revenue", "revenue_growth_pct"}
              ELSE {"revenue_growth_pct"}
         ELSE {"net_income"}
    ELSE IF c[2] \in {debt_candidates[i] : i \in 1..Len(debt_candidates)}
         THEN {"total_debt", "debt_to_equity"}
         ELSE {"total_equity", "debt_to_equity"}

\* C8: when exactly one cell the extraction reads is malformed, the metrics
\* derived from it are None and every other metric has the value it has when
\* the cell holds nothing.
C8_IndependentLookups ==
    (Extracted /\ Cardinality({c \in ReadCells(data) : Malformed(data, c)}) = 1) =>
        LET c == CHOOSE x \in ReadCells(data) : Malformed(data, x)
            ref == extract_financial_metrics(Nulled(data, c)).metrics
        IN  \A m \in MetricKeys :
                IF m \in DerivedFrom(c) THEN extracted.metrics[m] = None
                ELSE extracted.metrics[m] = ref[m]

\* an absent or empty statement table / price history
NoTable(x) == ~NonEmptyFrame(x)

NoHistory(x) == ~NonEmptyHistory(x)

\* C9: the call never raises and returns the ten metric keys; with financials,
\* balance sheet and history empty or absent, revenue, net_income,
\* revenue_growth_pct, total_debt, total_equity and debt_to_equity are None.
C9_NeverRaises ==
    xpc = "extracted" =>
        /\ extracted.kind = "return"
        /\ DOMAIN extracted.metrics = MetricKeys
        /\ (/\ NoTable(DataGet(data, "financials"))
            /\ NoTable(DataGet(data, "balance_sheet"))
            /\ NoHistory(DataGet(data, "history"))) =>
                \A m \in {"revenue", "net_income", "revenue_growth_pct",
                          "total_debt", "total_equity", "debt_to_equity"} :
                    extracted.metrics[m] = None

\* C10: revenue_growth_pct is (most recent - previous) / |previous| * 100 of
\* the first matching revenue alias row when the table has at least two
\* periods and previous is a non-zero number; it is None with fewer than two
\* periods, with no matching alias, and with previous None or zero.
C10_RevenueGrowth ==
    Extracted =>
        LET fin == DataGet(data, "financials")
            alias == IF NonEmptyFrame(fin) THEN FirstAlias(fin, rev_candidates)
                     ELSE ""
            growth == extracted.metrics.revenue_growth_pct
        IN  IF alias = "" \/ fin.ncols < 2 THEN growth = None
            ELSE LET new == fin.rows[alias][1]
                     prev == fin.rows[alias][2]
                 IN  /\ (prev.t = "none" \/ (prev.t = "num" /\ prev.n = 0)) =>
                            growth = None
                     /\ (prev.t = "num" /\ prev.n # 0 /\ new.t = "num") =>
                            growth = Num((new.n * prev.d - prev.n * new.d)
                                             * 100 * prev.d,
                                         new.d * prev.d * AbsInt(prev.n))


\* C11: debt_to_equity is total_debt / total_equity when the two returned
\* metrics are numbers and total_equity is not zero, and None whenever
\* total_debt is None, total_equity is None or total_equity is 0.
C11_DebtToEquity ==
    Extracted =>
        LET debt == extracted.metrics.total_debt
            equity == extracted.metrics.total_equity
            d2e == extracted.metrics.debt_to_equity
        IN  /\ (debt.t = "none" \/ equity.t = "none"
                    \/ (equity.t = "num" /\ equity.n = 0)) => d2e = None
            /\ (debt.t = "num" /\ equity.t = "num" /\ equity.n # 0) =>
                  /\ d2e.t = "num"
                  /\ d2e.n * debt.d * equity.n = debt.n * equity.d * d2e.d

\* C11 witness: total_debt is a number, total_equity is exactly 0 and
\* debt_to_equity is None.
C11_Witness ==
    /\ Extracted
    /\ extracted.metrics.total_debt = Num(100, 1)
    /\ extracted.metrics.total_equity = Num(0, 1)
    /\ extracted.metrics.debt_to_equity = None

\* C12: current_price is the most recent close when the history is non-empty,
\* otherwise the info's currentPrice whenever info carries it; it is None only
\* when neither source provides a price; and the call does not raise (stated
\* for an info that is a dict or absent).
C12_CurrentPrice ==
    (xpc = "extracted" /\ InfoOf(data).t = "dict") =>
        /\ extracted.kind = "return"
        /\ LET hist == DataGet(data, "history")
               info == InfoOf(data)
               price == extracted.metrics.current_price
               closes == NonEmptyHistory(hist) /\ "Close" \in hist.columns
               carried == info.t = "dict" /\ "currentPrice" \in DOMAIN info.d
                              /\ info.d["currentPrice"].t = "num"
           IN  /\ closes => price = hist.closes[Len(hist.closes)]
               /\ (~NonEmptyHistory(hist) /\ carried) =>
                      price = info.d["currentPrice"]
               /\ price = None => (~closes /\ ~carried)


-----------------------------------------------------------------------------
(* score_news_sentiment *)

(* A headline is the sequence of its characters, each a one-character string. *)

\* c.lower()
LowerChar(c) ==
    LET Uppercase ==
            <<"A", "B", "C", "D", "E", "F", "G", "H", "I", "J", "K", "L", "M",
              "N", "O", "P", "Q", "R", "S", "T", "U", "V", "W", "X", "Y", "Z">>
        Lowercase ==
            <<"a", "b", "c", "d", "e", "f", "g", "h", "i", "j", "k", "l", "m",
              "n", "o", "p", "q", "r", "s", "t", "u", "v", "w", "x", "y", "z">>
    IN  IF \E i \in 1..Len(Uppercase) : Uppercase[i] = c
        THEN Lowercase[CHOOSE i \in 1..Len(Uppercase) : Uppercase[i] = c]
        ELSE c

\* w.lower()
Lower(w) == [i \in 1..Len(w) |-> LowerChar(w[i])]

\* the characters w.strip(".,!?:;()[]\"'") removes from both ends
StripChars == {".", ",", "!", "?", ":", ";", "(", ")", "[", "]", "\"", "'"}

RECURSIVE LStrip(_)
LStrip(w) ==
    IF w # <<>> /\ Head(w) \in StripChars THEN LStrip(Tail(w)) ELSE w

RECURSIVE RStrip(_)
RStrip(w) ==
    IF w # <<>> /\ w[Len(w)] \in StripChars
    THEN RStrip(SubSeq(w, 1, Len(w) - 1))
    ELSE w

Strip(w) == RStrip(LStrip(w))

\* h.split(): the maximal runs of non-blank characters
RECURSIVE SplitFrom(_, _, _)
SplitFrom(h, i, word) ==
    IF i > Len(h) THEN (IF word = <<>> THEN <<>> ELSE <<word>>)
    ELSE IF h[i] = " "
         THEN (IF word = <<>> THEN <<>> ELSE <<word>>) \o SplitFrom(h, i + 1, <<>>)
         ELSE SplitFrom(h, i + 1, Append(word, h[i]))

Split(h) == SplitFrom(h, 1, <<>>)

\* set(w.strip(...).lower() for w in h.split())
Words(h) == {Lower(Strip(Split(h)[i])) : i \in 1..Len(Split(h))}

POS ==
    { <<"g", "o", "o", "d">>,
      <<"g", "r", "e", "a", "t">>,
      <<"p", "o", "s", "i", "t", "i", "v", "e">>,
      <<"b", "e", "a", "t">>,
      <<"b", "e", "a", "t", "s">>,
      <<"u", "p">>,
      <<"g", "a", "i", "n">>,
      <<"g", "a", "i", "n", "s">>,
      <<"g", "r", "o", "w", "t", "h">>,
      <<"s", "t", "r", "o", "n", "g">>,
      <<"p", "r", "o", "f", "i", "t">>,
      <<"o", "u", "t", "p", "e", "r", "f", "o", "r", "m">> }

NEG ==
    { <<"b", "a", "d">>,
      <<"w", "o", "r", "s", "e">>,
      <<"m", "i", "s", "s">>,
      <<"m", "i", "s", "s", "e", "d">>,
      <<"d", "o", "w", "n">>,
      <<"l", "o", "s", "s">>,
      <<"l", "o", "s", "s", "e", "s">>,
      <<"w", "e", "a", "k">>,
      <<"d", "e", "c", "l", "i", "n", "e">>,
      <<"f", "a", "l", "l">>,
      <<"c", "u", "t">>,
      <<"w", "a", "r", "n">> }

\* a + b on numbers
Add(a, b) == Num(a.n * b.d + b.n * a.d, a.d * b.d)

RECURSIVE Sum(_)
Sum(xs) == IF xs = <<>> THEN Num(0, 1) ELSE Add(Head(xs), Sum(Tail(xs)))

\* sum(xs) in place of sum(xs) / len(xs)
SumOrZero(xs) == Sum(xs)

\* sum(xs) / len(xs) if xs else 0.0
MeanOrZero(xs) ==
    IF xs = <<>> THEN Num(0, 1) ELSE Div(Sum(xs), Num(Len(xs), 1))

\* the per-headline score of the fallback path, None for a skipped headline
LexiconScore(h) ==
    LET words == Words(h)
        pos == Cardinality(words \cap POS)
        neg == Cardinality(words \cap NEG)
    IN  IF pos + neg = 0 THEN None ELSE Num(pos - neg, pos + neg)

\* the members of xs outside Skip, in order
RECURSIVE Kept(_, _)
Kept(xs, Skip) ==
    IF xs = <<>> THEN <<>>
    ELSE IF Head(xs) \in Skip THEN Kept(Tail(xs), Skip)
    ELSE <<Head(xs)>> \o Kept(Tail(xs), Skip)

\* the mean taken over every headline, a skipped one counting as 0
FallbackScoreUnskipped(hs) ==
    IF hs = <<>> THEN Num(0, 1)
    ELSE Div(Sum(Kept([i \in 1..Len(hs) |-> LexiconScore(hs[i])], {None})),
             Num(Len(hs), 1))

\* the except branch: the mean of the lexicon scores of the headlines that
\* hit the lexicon, 0.0 if none does
FallbackScore(hs) ==
    MeanOrZero(Kept([i \in 1..Len(hs) |-> LexiconScore(hs[i])], {None}))

\* the try branch: the mean of the analyzer's compound scores of the non-empty
\* headlines, 0.0 if there is none; cs[i] is what
\* analyzer.polarity_scores(hs[i]).get("compound", 0.0) returned
PrimaryScore(hs, cs) ==
    MeanOrZero(Kept([i \in 1..Len(hs) |->
                        IF hs[i] = <<>> THEN None ELSE cs[i]], {None}))

\* score_news_sentiment(headlines): the try branch when the analyzer can be
\* imported and its calls return, the except branch otherwise
score_news_sentiment(hs, analyzer, cs) ==
    IF analyzer = "available"
    THEN [kind |-> "return", value |-> PrimaryScore(hs, cs)]
    ELSE [kind |-> "return", value |-> FallbackScore(hs)]

-----------------------------------------------------------------------------
(* Callers of score_news_sentiment *)

\* the longest list of headlines of a call
MaxHeadlines == 2

\* "Great growth", "bad loss", "neutral news here", "", "Profit up, but LOSS!",
\* "(Weak) outlook.", "Gains gains miss"
Headlines ==
    { <<"G", "r", "e", "a", "t", " ", "g", "r", "o", "w", "t", "h">>,
      <<"b", "a", "d", " ", "l", "o", "s", "s">>,
      <<"n", "e", "u", "t", "r", "a", "l", " ", "n", "e", "w", "s", " ", "h", "e", "r", "e">>,
      <<>>,
      <<"P", "r", "o", "f", "i", "t", " ", "u", "p", ",", " ", "b", "u", "t", " ", "L", "O", "S", "S", "!">>,
      <<"(", "W", "e", "a", "k", ")", " ", "o", "u", "t", "l", "o", "o", "k", ".">>,
      <<"G", "a", "i", "n", "s", " ", "g", "a", "i", "n", "s", " ", "m", "i", "s", "s">> }

HeadlineLists == UNION { [1..n -> Headlines] : n \in 0..MaxHeadlines }

\* analyzer.polarity_scores(h).get("compound", 0.0): a score in [-1, 1], and
\* 0.0 for a text in which the analyzer finds no word of its lexicon (hits
\* records whether it found one)
AnalyzerReturns ==
    {[hits |-> TRUE, compound |-> c] :
        c \in {Num(-1, 1), Num(-1, 2), Num(0, 1), Num(1, 2), Num(1, 1)}}
        \cup {[hits |-> FALSE, compound |-> Num(0, 1)]}

\* one analyzer return per non-empty headline; an empty headline is not
\* passed to the analyzer
CompoundsFor(hs) ==
    { cs \in [1..Len(hs) -> AnalyzerReturns \cup {NotCalled}] :
        \A i \in 1..Len(hs) : (cs[i] = NotCalled) <=> (hs[i] = <<>>) }

\* sentiment = score_news_sentiment(headlines)
Score ==
    /\ spc = "start"
    /\ \E cs \in CompoundsFor(headlines) :
          /\ compounds' = IF vader = "available" THEN cs ELSE <<>>
          /\ scored' = score_news_sentiment(
                           headlines, vader,
                           [i \in 1..Len(cs) |->
                               IF cs[i] = NotCalled THEN None
                               ELSE cs[i].compound])
    /\ spc' = "scored"
    /\ UNCHANGED <<headlines, vader>>

NextSentiment == Score /\ UNCHANGED
    <<decideVars, extractVars, storageVars, routeVars, pineconeVars>>

InitSentimentCalls ==
    /\ headlines \in HeadlineLists
    /\ vader \in {"available", "unavailable"}
    /\ compounds = <<>>
    /\ scored = NotCalled
    /\ spc = "start"
    /\ InitDecideIdle
    /\ InitExtractIdle
    /\ InitStorageIdle
    /\ InitRouteIdle
    /\ InitPineconeIdle

SpecSentiment == InitSentimentCalls /\ [][NextSentiment]_vars

-----------------------------------------------------------------------------
(* Claims about score_news_sentiment, checked under SpecSentiment *)

Primary == spc = "scored" /\ vader = "available"

Fallback == spc = "scored" /\ vader = "unavailable"

\* the number of distinct tokens of h in the word set W
Hits(h, W) == Cardinality(Words(h) \cap W)

\* no headline has a sentiment-bearing word: none the analyzer found on the
\* primary path, none of POS or NEG on the fallback path
NoBearingWord ==
    IF vader = "available"
    THEN \A i \in 1..Len(headlines) :
            headlines[i] # <<>> => ~compounds[i].hits
    ELSE \A i \in 1..Len(headlines) :
            Hits(headlines[i], POS \cup NEG) = 0

\* C13: on both paths score_news_sentiment returns a number in [-1, 1], and
\* exactly 0.0 when the list is empty or no headline has a sentiment-bearing
\* word.
C13_ScoreInRange ==
    spc = "scored" =>
        /\ scored.kind = "return"
        /\ scored.value.t = "num"
        /\ -scored.value.d <= scored.value.n
        /\ scored.value.n <= scored.value.d
        /\ (headlines = <<>> \/ NoBearingWord) => scored.value = Num(0, 1)

\* two headlines at the top of the range on the primary path
C13_Witness ==
    /\ Primary
    /\ Len(headlines) = 2
    /\ \A i \in 1..2 : headlines[i] # <<>> /\ compounds[i].compound = Num(1, 1)
    /\ scored.value = Num(1, 1)

\* the headlines of hs with a token in POS or NEG, in order
Signalled(hs) == SelectSeq(hs, LAMBDA h : Hits(h, POS) + Hits(h, NEG) > 0)

\* (p - n) / (p + n) for a headline with p + n > 0
Ratio(h) == Num(Hits(h, POS) - Hits(h, NEG), Hits(h, POS) + Hits(h, NEG))

\* C14: on the fallback path the result is the mean of (p - n) / (p + n) over
\* the headlines with p + n > 0, 0.0 if there is none; ["Great growth"] gives
\* 1.0, ["bad loss"] gives -1.0 and ["neutral news here"] gives 0.0.
C14_FallbackMean ==
    Fallback =>
        LET sig == Signalled(headlines)
            value == scored.value
        IN  /\ scored.kind = "return"
            /\ sig = <<>> => value = Num(0, 1)
            /\ sig # <<>> =>
                  value = Div(Sum([i \in 1..Len(sig) |-> Ratio(sig[i])]),
                              Num(Len(sig), 1))
            /\ headlines = << <<"G", "r", "e", "a", "t", " ",
                                "g", "r", "o", "w", "t", "h">> >>
                  => value = Num(1, 1)
            /\ headlines = << <<"b", "a", "d", " ", "l", "o", "s", "s">> >>
                  => value = Num(-1, 1)
            /\ headlines = << <<"n", "e", "u", "t", "r", "a", "l", " ",
                                "n", "e", "w", "s", " ",
                                "h", "e", "r", "e">> >>
                  => value = Num(0, 1)

\* ["Profit up, but LOSS!", "neutral news here"]: the mean is over the one
\* headline with a signal, (2 - 1) / (2 + 1)
C14_Witness ==
    /\ Fallback
    /\ Len(headlines) = 2
    /\ Hits(headlines[1], POS) = 2
    /\ Hits(headlines[1], NEG) = 1
    /\ Hits(headlines[2], POS \cup NEG) = 0
    /\ scored.value = Num(1, 3)

-----------------------------------------------------------------------------
(* ResultStorage (src/system/utility/result_storage.py) *)

\* content.get(key)
ContentGet(content, key) ==
    IF key \in DOMAIN content.d THEN content.d[key] ELSE None

\* _instantiated(): False when content is not a dict (the TypeError it raises
\* is caught inside), True otherwise
Instantiated(content) == content.t = "dict"

\* the attribute _instantiated() leaves for key: the dict's value, None when
\* content is not a dict or has no such key
Assigned(content, key) ==
    IF content.t # "dict" THEN None ELSE ContentGet(content, key)

\* ResultStorage(content): __init__ sets the attributes and appends the new
\* instance to ResultStorage.memory, whatever _instantiated() returned
Appended(mem, content) ==
    Append(mem, [content |-> content,
                 research_findings |-> Assigned(content, "research_findings"),
                 final_report |-> Assigned(content, "final_report"),
                 instantiated |-> Instantiated(content)])

\* the instances with the key, whatever its value
find_by_key_present(mem, key, value) ==
    IF \E i \in 1..Len(mem) : mem[i].content.t # "dict"
    THEN [kind |-> "raise", exc |-> "AttributeError"]
    ELSE [kind |-> "return",
          value |-> SelectSeq(mem, LAMBDA inst : key \in DOMAIN inst.content.d)]

\* find_by_key(key, value): inst.content.get raises AttributeError on the
\* first instance whose content has no get
find_by_key(mem, key, value) ==
    IF \E i \in 1..Len(mem) : mem[i].content.t # "dict"
    THEN [kind |-> "raise", exc |-> "AttributeError"]
    ELSE [kind |-> "return",
          value |-> SelectSeq(mem, LAMBDA inst :
                                      ContentGet(inst.content, key) = value)]

-----------------------------------------------------------------------------
(* Callers of ResultStorage *)

\* the most instances ResultStorage.memory holds
MaxSaves == 2

ContentKeys == {"research_findings", "final_report", "ticker"}

ContentValues == {Str("a"), Str("b")}

\* the dicts with keys among ContentKeys
DictContents ==
    UNION { {Dict(f) : f \in [K -> ContentValues]} : K \in SUBSET ContentKeys }

\* the dicts, and contents that are not dicts
Contents == DictContents \cup {Str("this is not a dict"), None}

\* ResultStorage.save(content)
Save ==
    /\ Len(memory) < MaxSaves
    /\ \E content \in Contents :
          /\ memory' = Appended(memory, content)
          /\ saves' = Append(saves, content)
          /\ rpc' = [op |-> "save", content |-> content]
    /\ result' = [kind |-> "return", value |-> None]

\* ResultStorage.clear()
Clear ==
    /\ memory' = <<>>
    /\ saves' = <<>>
    /\ result' = [kind |-> "return", value |-> None]
    /\ rpc' = [op |-> "clear"]

\* ResultStorage.all()
All ==
    /\ result' = [kind |-> "return", value |-> memory]
    /\ rpc' = [op |-> "all"]
    /\ UNCHANGED <<memory, saves>>

\* ResultStorage.find_by_key(key, value)
FindByKey ==
    /\ \E key \in ContentKeys, value \in ContentValues :
          /\ result' = find_by_key(memory, key, value)
          /\ rpc' = [op |-> "find_by_key", key |-> key, value |-> value]
    /\ UNCHANGED <<memory, saves>>

NextStorage ==
    \/ Save /\ UNCHANGED
           <<decideVars, extractVars, sentimentVars, routeVars, pineconeVars>>
    \/ Clear /\ UNCHANGED
           <<decideVars, extractVars, sentimentVars, routeVars, pineconeVars>>
    \/ All /\ UNCHANGED
           <<decideVars, extractVars, sentimentVars, routeVars, pineconeVars>>
    \/ FindByKey /\ UNCHANGED
           <<decideVars, extractVars, sentimentVars, routeVars, pineconeVars>>

InitStorageCalls ==
    /\ memory = <<>>
    /\ saves = <<>>
    /\ result = NotCalled
    /\ rpc = [op |-> "start"]
    /\ InitDecideIdle
    /\ InitExtractIdle
    /\ InitSentimentIdle
    /\ InitRouteIdle
    /\ InitPineconeIdle

SpecStorage == InitStorageCalls /\ [][NextStorage]_vars

-----------------------------------------------------------------------------
(* Claims about ResultStorage, checked under SpecStorage *)

\* C15: save with content that is not a dict returns None and leaves the
\* length of all() as it was.
C15_InvalidSaveAddsNothing ==
    [][(rpc'.op = "save" /\ rpc'.content.t # "dict") =>
          /\ result' = [kind |-> "return", value |-> None]
          /\ Len(memory') = Len(memory)]_vars

\* every save since the last clear was given a dict
OnlyDictsSaved == \A i \in 1..Len(saves) : saves[i].t = "dict"

\* the content has key k, with value v
HasItem(content, k, v) == k \in DOMAIN content.d /\ content.d[k] = v

\* C16: after saves of dicts and clears, memory holds one instance per save
\* since the last clear, in save order, with research_findings and
\* final_report taken from the dict (None when absent); all() returns them,
\* find_by_key(k, v) returns exactly those whose content has k equal to v, and
\* right after clear() memory is empty.
C16_SavesAndClears ==
    OnlyDictsSaved =>
        /\ Len(memory) = Len(saves)
        /\ \A i \in 1..Len(memory) :
              /\ memory[i].content = saves[i]
              /\ \A k \in {"research_findings", "final_report"} :
                    memory[i][k] = (IF k \in DOMAIN saves[i].d
                                    THEN saves[i].d[k] ELSE None)
        /\ rpc.op = "all" => result = [kind |-> "return", value |-> memory]
        /\ rpc.op = "find_by_key" =>
              /\ result.kind = "return"
              /\ result.value =
                    SelectSeq(memory, LAMBDA inst :
                                 HasItem(inst.content, rpc.key, rpc.value))
        /\ rpc.op = "clear" => memory = <<>>

\* two dicts saved, one of which has the key with the value looked for and
\* the other the key with another value
C16_Witness ==
    /\ OnlyDictsSaved
    /\ rpc.op = "find_by_key"
    /\ Len(memory) = 2
    /\ HasItem(memory[1].content, rpc.key, rpc.value)
    /\ rpc.key \in DOMAIN memory[2].content.d
    /\ ~HasItem(memory[2].content, rpc.key, rpc.value)
    /\ result.kind = "return"
    /\ result.value = <<memory[1]>>

\* C19: after any saves (dict or not) and clears, find_by_key returns a list
\* and never raises: every instance held in memory has dict content.
C19_FindByKeyNeverRaises ==
    /\ \A i \in 1..Len(memory) : memory[i].content.t = "dict"
    /\ rpc.op = "find_by_key" => result.kind = "return"

-----------------------------------------------------------------------------
(* The analyze-stock endpoint (src/Interface/routes.py, src/main.py) *)

\* AgentOutputSchema(final_summary=text), returned with status 200
AgentOutput(text) ==
    [kind |-> "return", status |-> 200, final_summary |-> text]

\* raise HTTPException(status_code=500, detail=str(exc))
HTTP500(exc) ==
    [kind |-> "raise", exc |-> "HTTPException", status |-> 500, detail |-> exc]

\* ResultStorage(*args): __init__ takes exactly one argument besides self, the
\* call raises TypeError before __init__ runs otherwise
ResultStorageCall(args) ==
    IF Len(args) = 1
    THEN [kind |-> "return"]
    ELSE [kind |-> "raise", exc |-> "TypeError"]

\* the value an event's content has when the event carries none
NoContent == [t |-> "none", parts |-> <<>>]

\* types.Content(parts=[types.Part(text=t) for t in parts])
Content(parts) == [t |-> "content", parts |-> parts]

\* the loop over the events from the i-th on: each event is saved (its
\* content object, written "content", keyed to its first part's text), and
\* the first final event ends the loop.  event.content.parts raises
\* AttributeError on an event without content, parts[0] IndexError on one
\* without parts.
RECURSIVE StreamFrom(_, _, _)
StreamFrom(evs, i, mem) ==
    IF i > Len(evs)
    THEN [response |-> AgentOutput("Agent did not produce a final response."),
          memory |-> mem]
    ELSE LET event == evs[i]
         IN  IF event.content.t = "none"
             THEN [response |-> HTTP500("AttributeError"), memory |-> mem]
             ELSE IF event.content.parts = <<>>
             THEN [response |-> HTTP500("IndexError"), memory |-> mem]
             ELSE LET text == event.content.parts[1]
                      saved == Appended(mem, Dict([k \in {"content"} |-> Str(text)]))
                  IN  IF event.final
                      THEN [response |-> AgentOutput(text), memory |-> saved]
                      ELSE StreamFrom(evs, i + 1, saved)

\* analyze_stock(ticker, request) with app.state.runner = rn, the runner
\* yielding evs, and ResultStorage.memory = mem
analyze_stock(rn, evs, mem) ==
    IF rn = None
    THEN [response |-> HTTP500("RuntimeError"), memory |-> mem]
    ELSE LET result_store == ResultStorageCall(<<>>)
         IN  IF result_store.kind = "raise"
             THEN [response |-> HTTP500(result_store.exc), memory |-> mem]
             ELSE StreamFrom(evs, 1, mem)

-----------------------------------------------------------------------------
(* The application: startup, then a request *)

\* the longest event stream of a request
MaxEvents == 2

EventContents ==
    {NoContent, Content(<<>>)} \cup {Content(<<t>>) : t \in {"BUY", "draft"}}

Events == [final : BOOLEAN, content : EventContents]

EventStreams == UNION { [1..n -> Events] : n \in 0..MaxEvents }

\* startup_event(): app.state.runner = Runner(...)
Startup ==
    /\ apc = "created"
    /\ runner' = Str("Runner")
    /\ apc' = "started"
    /\ UNCHANGED <<events, response, storageVars>>

\* POST /v1/analyze-stock/ {"ticker": ...}
AnalyzeStock ==
    /\ apc \in {"created", "started"}
    /\ LET out == analyze_stock(runner, events, memory)
       IN  /\ response' = out.response
           /\ memory' = out.memory
    /\ apc' = "responded"
    /\ UNCHANGED <<runner, events, saves, result, rpc>>

NextRoute ==
    \/ Startup /\ UNCHANGED
           <<decideVars, extractVars, sentimentVars, pineconeVars>>
    \/ AnalyzeStock /\ UNCHANGED
           <<decideVars, extractVars, sentimentVars, pineconeVars>>

\* the application after create_app(): no runner yet
InitRouteCalls ==
    /\ runner = None
    /\ events \in EventStreams
    /\ response = NotCalled
    /\ apc = "created"
    /\ InitDecideIdle
    /\ InitExtractIdle
    /\ InitSentimentIdle
    /\ InitStorageIdle
    /\ InitPineconeIdle

SpecRoute == InitRouteCalls /\ [][NextRoute]_vars

-----------------------------------------------------------------------------
(* Claims about the endpoint, checked under SpecRoute *)

\* the stream has a final-response event
HasFinal(evs) == \E i \in 1..Len(evs) : evs[i].final

\* the first final-response event of the stream
FirstFinal(evs) ==
    evs[CHOOSE i \in 1..Len(evs) :
            evs[i].final /\ \A j \in 1..(i - 1) : ~evs[j].final]

\* the event carries text
CarriesText(event) == event.content.t = "content" /\ event.content.parts # <<>>

\* C17: with the runner initialized at startup and a stream whose first
\* final-response event carries text, the endpoint returns
\* {"final_summary": text} with that text, not a 500 error.
C17_FinalSummary ==
    (/\ apc = "responded"
     /\ runner # None
     /\ HasFinal(events)
     /\ CarriesText(FirstFinal(events))) =>
        response = AgentOutput(FirstFinal(events).content.parts[1])

-----------------------------------------------------------------------------
(* PineconeStorage (src/system/agents/finance_agent/tools/storage_tool.py) *)

(* A store maps every id to the record it holds for it, None when it holds *)
(* none.                                                                   *)

\* metadata or {}
MetadataOrEmpty(metadata) ==
    IF Truthy(metadata) THEN metadata ELSE Dict(<<>>)

\* store[id] = rec
Put(store, id, rec) == [store EXCEPT ![id] = rec]

\* del store[id], when the store has id
Remove(store, id) == [store EXCEPT ![id] = None]

\* what the Pinecone index holds after upsert([(id, vector, metadata)])
IndexRecord(id, vector, metadata) ==
    [id |-> id, values |-> vector, metadata |-> metadata]

\* what _in_memory holds after the fallback of upsert
MemoryRecord(vector, metadata) ==
    [vector |-> vector, metadata |-> metadata]

\* upsert(vector_id, vector, metadata), ok telling whether the Pinecone call
\* returns (it raises otherwise): the stores after the call
upsert(on, ok, idx, mem, id, vector, metadata) ==
    IF on /\ ok
    THEN [index |-> Put(idx, id, IndexRecord(id, vector, MetadataOrEmpty(metadata))),
          in_memory |-> mem]
    ELSE [index |-> idx,
          in_memory |-> Put(mem, id, MemoryRecord(vector, MetadataOrEmpty(metadata)))]

\* fetch(vector_id): vectors.get(vector_id) of the index's response (None for
\* an empty response) when the Pinecone call returns, _in_memory.get(vector_id)
\* otherwise
fetch(on, ok, idx, mem, id) ==
    IF on /\ ok
    THEN [kind |-> "return", value |-> idx[id]]
    ELSE [kind |-> "return", value |-> mem[id]]

\* delete(vector_id): the stores after the call
delete(on, ok, idx, mem, id) ==
    IF on /\ ok
    THEN [index |-> Remove(idx, id), in_memory |-> mem]
    ELSE [index |-> idx, in_memory |-> Remove(mem, id)]

-----------------------------------------------------------------------------
(* Callers of PineconeStorage *)

VectorIds == {"a", "b"}

Vectors == {<<1>>, <<2>>}

Metadatas == {None, Dict([k \in {"ticker"} |-> Str("AAPL")])}

\* storage.upsert(id, vector, metadata)
Upsert ==
    /\ \E id \in VectorIds, vector \in Vectors, metadata \in Metadatas,
          ok \in BOOLEAN :
          LET after == upsert(enabled, ok, index, in_memory, id, vector, metadata)
          IN  /\ index' = after.index
              /\ in_memory' = after.in_memory
              /\ stored' = Put(stored, id,
                               MemoryRecord(vector, MetadataOrEmpty(metadata)))
              /\ ppc' = [op |-> "upsert", id |-> id]
    /\ UNCHANGED <<enabled, fetched>>

\* storage.fetch(id)
Fetch ==
    /\ \E id \in VectorIds, ok \in BOOLEAN :
          /\ fetched' = fetch(enabled, ok, index, in_memory, id)
          /\ ppc' = [op |-> "fetch", id |-> id]
    /\ UNCHANGED <<enabled, index, in_memory, stored>>

\* storage.delete(id)
Delete ==
    /\ \E id \in VectorIds, ok \in BOOLEAN :
          LET after == delete(enabled, ok, index, in_memory, id)
          IN  /\ index' = after.index
              /\ in_memory' = after.in_memory
              /\ stored' = Put(stored, id, None)
              /\ ppc' = [op |-> "delete", id |-> id]
    /\ UNCHANGED <<enabled, fetched>>

NextPinecone ==
    \/ Upsert /\ UNCHANGED
           <<decideVars, extractVars, sentimentVars, storageVars, routeVars>>
    \/ Fetch /\ UNCHANGED
           <<decideVars, extractVars, sentimentVars, storageVars, routeVars>>
    \/ Delete /\ UNCHANGED
           <<decideVars, extractVars, sentimentVars, storageVars, routeVars>>

\* PineconeStorage(...): enabled when the API key is set and the client and
\* the index could be initialized; both stores empty
InitPineconeCalls ==
    /\ enabled \in BOOLEAN
    /\ index = [id \in VectorIds |-> None]
    /\ in_memory = [id \in VectorIds |-> None]
    /\ fetched = NotCalled
    /\ stored = [id \in VectorIds |-> NotCalled]
    /\ ppc = [op |-> "start"]
    /\ InitDecideIdle
    /\ InitExtractIdle
    /\ InitSentimentIdle
    /\ InitStorageIdle
    /\ InitRouteIdle

SpecPinecone == InitPineconeCalls /\ [][NextPinecone]_vars

-----------------------------------------------------------------------------
(* Claims about PineconeStorage, checked under SpecPinecone *)

\* the vector of a fetched record, of either backend
VectorOf(rec) == IF "values" \in DOMAIN rec THEN rec.values ELSE rec.vector

\* C18: whatever backend calls succeed or fail, fetch(id) after upsert(id, ...)
\* returns the record stored for id until delete(id), and None after
\* delete(id).
C18_FetchAfterUpsertAndDelete ==
    (ppc.op = "fetch" /\ stored[ppc.id] # NotCalled) =>
        /\ fetched.kind = "return"
        /\ IF stored[ppc.id] = None
           THEN fetched.value = None
           ELSE /\ fetched.value # None
                /\ VectorOf(fetched.value) = stored[ppc.id].vector
                /\ fetched.value.metadata = stored[ppc.id].metadata


====
